---- MODULE Spec2Model ----
(***************************************************************************)
(* Model of src/script.js: the marker store, the geocoding refresh cycle   *)
(* (an async function suspended on fetch, on response.json() and on the    *)
(* 1000 ms timer), the location list with its rendered Remove buttons, and *)
(* the marker colour / size controls.                                      *)
(*                                                                         *)
(* Numbers are fixed-point with three decimals (1.005 is 1005); a JS       *)
(* number is a record [nan, v] so that NaN is a value.  Strings are        *)
(* sequences of one-character strings.                                     *)
(***************************************************************************)
EXTENDS Integers, Sequences, FiniteSets, TLC

VARIABLES
  locations,        \* settings.locations (script.js:9)
  locIds,           \* history: identity of each entry of settings.locations
  nextId,           \* history: next fresh entry identity
  locationList,     \* children of #locationList: [text, index] per item
  newLocationValue, \* newLocationInput.value
  markerColor,      \* settings.markerColor
  markerSize,       \* settings.markerSize
  markerSizeValue,  \* markerSizeValue.textContent
  markers,          \* the markers array (script.js:135)
  globeChildren,    \* globe.children
  cycles,           \* one record per call of geocodeAndAddMarkers
  removes,          \* history: Remove clicks so far
  tracking,         \* whether the calls keep their history fields
  pLat, pLon, pRadius, pOut  \* inputs / output of a direct projection call

vars == <<locations, locIds, nextId, locationList, newLocationValue,
          markerColor, markerSize, markerSizeValue, markers, globeChildren,
          cycles, removes, tracking, pLat, pLon, pRadius, pOut>>

-----------------------------------------------------------------------------
(* Bounds of the model *)

MaxTriggers == 2   \* refresh cycles started, the startup one included
MaxAdds == 1       \* locations added by the user
MaxRemoves == 3    \* locations removed by the user

(* Program constants *)

DelayMs == 1000        \* setTimeout(resolve, 1000)
MarkerRadius == 1005   \* latLonToVector3(lat, lon, 1.005), in thousandths

-----------------------------------------------------------------------------
(* JS numbers and strings *)

Num(n) == [nan |-> FALSE, v |-> n]
NaN == [nan |-> TRUE, v |-> 0]

Digits == <<"0", "1", "2", "3", "4", "5", "6", "7", "8", "9",
            "a", "b", "c", "d", "e", "f">>

IsDigit(c, base) == \E i \in 1..base : Digits[i] = c
DigitVal(c) == (CHOOSE i \in 1..16 : Digits[i] = c) - 1

Drop(s, n) == IF n >= Len(s) THEN <<>> ELSE SubSeq(s, n + 1, Len(s))

\* longest prefix of s made of digits of the base
RECURSIVE DigitPrefix(_, _)
DigitPrefix(s, base) ==
  IF s = <<>> \/ ~IsDigit(Head(s), base) THEN <<>>
  ELSE <<Head(s)>> \o DigitPrefix(Tail(s), base)

RECURSIVE DigitsValue(_, _)
DigitsValue(s, base) ==
  IF s = <<>> THEN 0
  ELSE DigitsValue(SubSeq(s, 1, Len(s) - 1), base) * base + DigitVal(s[Len(s)])

\* String.prototype.trim on spaces
RECURSIVE TrimLeft(_)
TrimLeft(s) == IF s # <<>> /\ Head(s) = " " THEN TrimLeft(Tail(s)) ELSE s
RECURSIVE TrimRight(_)
TrimRight(s) ==
  IF s # <<>> /\ s[Len(s)] = " " THEN TrimRight(SubSeq(s, 1, Len(s) - 1)) ELSE s
trim(s) == TrimRight(TrimLeft(s))

\* color.replace("#", "0x"): the first "#" only
RECURSIVE replaceHash(_)
replaceHash(s) ==
  IF s = <<>> THEN <<>>
  ELSE IF Head(s) = "#" THEN <<"0", "x">> \o Tail(s)
  ELSE <<Head(s)>> \o replaceHash(Tail(s))

\* parseInt(s) without radix: hexadecimal after 0x, decimal otherwise
parseInt(s) ==
  LET hex  == Len(s) >= 2 /\ s[1] = "0" /\ s[2] = "x"
      base == IF hex THEN 16 ELSE 10
      ds   == DigitPrefix(IF hex THEN Drop(s, 2) ELSE s, base)
  IN IF ds = <<>> THEN NaN ELSE Num(DigitsValue(ds, base))

\* parseFloat(s): [-]digits[.digits], in thousandths; NaN without a digit
parseFloat(s) ==
  LET neg   == s # <<>> /\ Head(s) = "-"
      body  == IF neg THEN Tail(s) ELSE s
      ip    == DigitPrefix(body, 10)
      rest  == Drop(body, Len(ip))
      fp    == IF rest # <<>> /\ Head(rest) = "."
               THEN DigitPrefix(Tail(rest), 10) ELSE <<>>
      fp3   == SubSeq(fp \o <<"0", "0", "0">>, 1, 3)
      mag   == DigitsValue(ip, 10) * 1000 + DigitsValue(fp3, 10)
  IN IF ip = <<>> /\ fp = <<>> THEN NaN
     ELSE Num(IF neg THEN -mag ELSE mag)

RECURSIVE NatChars(_)
NatChars(n) ==
  IF n < 10 THEN <<Digits[n + 1]>>
  ELSE NatChars(n \div 10) \o <<Digits[(n % 10) + 1]>>

\* Number.prototype.toFixed(3) of a number held in thousandths
toFixed3(x) ==
  IF x.nan THEN <<"N", "a", "N">>
  ELSE LET a == IF x.v < 0 THEN -x.v ELSE x.v
           f == a % 1000
       IN (IF x.v < 0 THEN <<"-">> ELSE <<>>) \o NatChars(a \div 1000) \o <<".">>
          \o <<Digits[(f \div 100) + 1], Digits[((f \div 10) % 10) + 1],
               Digits[(f % 10) + 1]>>

-----------------------------------------------------------------------------
(* Projection (script.js:123-132).  Angles are thousandths of a degree;    *)
(* Math.sin / Math.cos are tabulated at the multiples of 30 degrees, in    *)
(* thousandths, which is where the model's coordinates lie.                *)

SinTable == <<0, 500, 866, 1000, 866, 500, 0, -500, -866, -1000, -866, -500>>

sinDeg(mdeg) == SinTable[(((mdeg \div 1000) % 360) \div 30) + 1]
cosDeg(mdeg) == sinDeg(mdeg + 90000)

\* product of two thousandths, rounded toward zero
Mul(a, b) ==
  LET p == a * b IN IF p >= 0 THEN p \div 1000 ELSE -((-p) \div 1000)

latLonToVector3Flipped(lat, lon, radius) ==
  IF lat.nan \/ lon.nan THEN <<NaN, NaN, NaN>>
  ELSE LET phi   == 90000 - lat.v
           theta == lon.v + 180000
       IN <<Num(Mul(Mul(radius, sinDeg(phi)), cosDeg(theta))),
            Num(Mul(radius, cosDeg(phi))),
            Num(-Mul(Mul(radius, sinDeg(phi)), sinDeg(theta)))>>

latLonToVector3(lat, lon, radius) ==
  IF lat.nan \/ lon.nan THEN <<NaN, NaN, NaN>>
  ELSE LET phi   == 90000 - lat.v
           theta == lon.v + 180000
           x     == -Mul(Mul(radius, sinDeg(phi)), cosDeg(theta))
           z     == Mul(Mul(radius, sinDeg(phi)), sinDeg(theta))
           y     == Mul(radius, cosDeg(phi))
       IN <<Num(x), Num(y), Num(z)>>

-----------------------------------------------------------------------------
(* Marker store (script.js:135-162).  A marker is the mesh's position,     *)
(* colour and size; cyc and loc are history: the cycle that added it and   *)
(* the list entry it was looked up for.                                    *)

addMarkerSwapped(ms, ch, lat, lon, color, size, cyc, loc) ==
  LET marker == [position |-> latLonToVector3(lon, lat, MarkerRadius),
                 color |-> color, size |-> size, cyc |-> cyc, loc |-> loc]
  IN [markers |-> Append(ms, marker), children |-> Append(ch, marker)]

addMarker(ms, ch, lat, lon, color, size, cyc, loc) ==
  LET marker == [position |-> latLonToVector3(lat, lon, MarkerRadius),
                 color |-> color, size |-> size, cyc |-> cyc, loc |-> loc]
  IN [markers |-> Append(ms, marker), children |-> Append(ch, marker)]

InSeq(x, s) == \E k \in DOMAIN s : s[k] = x

\* a clearMarkers that forgets to detach the meshes from the globe
clearMarkersStoreOnly(ms, ch) == [markers |-> <<>>, children |-> ch]

clearMarkers(ms, ch) ==
  [markers |-> <<>>, children |-> SelectSeq(ch, LAMBDA m : ~InSeq(m, ms))]

-----------------------------------------------------------------------------
(* Inputs: what the user types and what the geocoding service answers *)

InitialLocations == << <<"N", "Y">>, <<"M", "i">>, <<"C", "a">> >>

LocationInputs == { <<" ">>, <<" ", "b", " ">> }
ColorInputs == { <<"#", "0", "0", "0", "0", "f", "f">> }
SizeInputs == { <<"0", ".", "0", "1", "0">> }
Keys == { "Enter", "a" }

\* the service's result object for a query: string-encoded latitude and
\* longitude, one place per name
Place(city) ==
  CASE city = <<"N", "Y">> -> [lat |-> <<"3", "0", ".", "0">>, lon |-> <<"-", "6", "0">>]
    [] city = <<"M", "i">> -> [lat |-> <<"0">>, lon |-> <<"-", "9", "0">>]
    [] city = <<"C", "a">> -> [lat |-> <<"3", "0">>, lon |-> <<"-", "9", "0", ".", "0", "0">>]
    [] OTHER -> [lat |-> <<"6", "0">>, lon |-> <<"3", "0">>]

\* parsed response bodies for a query: null, [] and the one-result array
Bodies(city) == { [isNull |-> TRUE, items |-> <<>>],
                  [isNull |-> FALSE, items |-> <<>>],
                  [isNull |-> FALSE, items |-> <<Place(city)>>] }

-----------------------------------------------------------------------------
(* Location list (script.js:317-352) *)

\* Array.prototype.splice(index, 1) with a 0-based index
splice1(s, index) ==
  IF index < 0 \/ index >= Len(s) THEN s
  ELSE SubSeq(s, 1, index) \o SubSeq(s, index + 2, Len(s))

updateLocationList(locs) ==
  [k \in 1..Len(locs) |-> [text |-> locs[k], index |-> k - 1]]

\* a Remove handler that drops its own item but leaves the others as rendered
deleteBtnClickStale(locs, list, k) ==
  [locations |-> splice1(locs, list[k].index), list |-> splice1(list, k - 1)]

\* click on the Remove button of the k-th rendered item
deleteBtnClick(locs, list, k) ==
  LET after == splice1(locs, list[k].index)
  IN [locations |-> after, list |-> updateLocationList(after)]

-----------------------------------------------------------------------------------------------------------------------------------------------------
(* Refresh cycle (script.js:165-189).  pc is the await the call is         *)
(* suspended on: "fetch", "json", "delay", or "done" once it has returned. *)
(* idx is the array iterator's next index into the live settings.locations.*)
(* History fields: startIds / endIds (the list when the call started and   *)
(* returned), looked (entries a request was issued for), log (how each     *)
(* lookup ended), waitedMs (delays completed), cleared (markers removed by *)
(* its clearMarkers), alone (no other call was in flight meanwhile),       *)
(* edited (the list was edited meanwhile), noDelay (a request was issued   *)
(* without the delay after the previous one).                              *)

Running(c) == c.pc \in {"fetch", "json", "delay"}

\* history is kept for the latest call only: a call a later trigger has
\* overtaken keeps the fields the code has (pc, idx, city) and no history
Untracked(c) ==
  [pc |-> c.pc, idx |-> IF Running(c) THEN c.idx ELSE 0,
   city |-> c.city, cityId |-> c.cityId, tracked |-> FALSE,
   startIds |-> <<>>, endIds |-> <<>>, looked |-> <<>>, log |-> <<>>,
   waitedMs |-> 0, cleared |-> 0, alone |-> FALSE, edited |-> FALSE,
   noDelay |-> FALSE]

Norm(c) == IF c.tracked THEN c ELSE Untracked(c)

\* the loop head: take the next element of the live array, or return
NextIteration(c, delayed) ==
  Norm(IF c.idx < Len(locations)
       THEN [c EXCEPT !.pc = "fetch", !.city = locations[c.idx + 1],
                      !.cityId = locIds[c.idx + 1], !.idx = c.idx + 1,
                      !.looked = Append(c.looked, locIds[c.idx + 1]),
                      !.noDelay = c.noDelay \/ ~delayed]
       ELSE [c EXCEPT !.pc = "done", !.city = <<>>, !.cityId = 0,
                      !.endIds = locIds])

Logged(c, kind, lat, lon) ==
  Norm([c EXCEPT !.log = Append(c.log, [id |-> c.cityId, kind |-> kind,
                                        lat |-> lat, lon |-> lon])])

\* a catch block that gives up the cycle
catchErrorAbort(c, kind) ==
  Norm([Logged(c, kind, <<>>, <<>>) EXCEPT !.pc = "done", !.city = <<>>,
                                           !.cityId = 0, !.endIds = locIds])

\* catch (error) { console.error(...) }, then the next iteration
catchError(c, kind) == NextIteration(Logged(c, kind, <<>>, <<>>), FALSE)

\* the state of a call of geocodeAndAddMarkers at its first await
StartedCycle(alone, cleared) ==
  NextIteration([pc |-> "start", idx |-> 0, city |-> <<>>, cityId |-> 0,
                 tracked |-> tracking,
                 startIds |-> locIds, endIds |-> <<>>, looked |-> <<>>,
                 log |-> <<>>, waitedMs |-> 0, cleared |-> cleared,
                 alone |-> alone, edited |-> FALSE, noDelay |-> FALSE], TRUE)

NoteEdit(cs) ==
  [i \in DOMAIN cs |-> IF Running(cs[i]) /\ cs[i].tracked
                       THEN [cs[i] EXCEPT !.edited = TRUE] ELSE cs[i]]

NoteTrigger(cs) == [i \in DOMAIN cs |-> Untracked(cs[i])]

ProjUnchanged == UNCHANGED <<tracking, pLat, pLon, pRadius, pOut>>
ListUnchanged ==
  UNCHANGED <<locations, locIds, nextId, locationList, newLocationValue, removes>>
SettingsUnchanged == UNCHANGED <<markerColor, markerSize, markerSizeValue>>
StoreUnchanged == UNCHANGED <<markers, globeChildren>>

\* geocodeAndAddMarkers() up to its first await, called by the Refresh button
RefreshClick ==
  /\ Len(cycles) < MaxTriggers
  /\ LET cleared == clearMarkers(markers, globeChildren)
         quiet   == \A i \in DOMAIN cycles : ~Running(cycles[i])
     IN /\ markers' = cleared.markers
        /\ globeChildren' = cleared.children
        /\ cycles' = Append(NoteTrigger(cycles),
                            StartedCycle(quiet, Len(markers)))
  /\ ListUnchanged /\ SettingsUnchanged /\ ProjUnchanged

\* await fetch(...) resolves: response.json() is called and awaited
FetchResolve(i) ==
  /\ cycles[i].pc = "fetch"
  /\ cycles' = [cycles EXCEPT ![i].pc = "json"]
  /\ ListUnchanged /\ SettingsUnchanged /\ StoreUnchanged /\ ProjUnchanged

\* await fetch(...) rejects (network error): the catch block
FetchReject(i) ==
  /\ cycles[i].pc = "fetch"
  /\ cycles' = [cycles EXCEPT ![i] = catchError(cycles[i], "neterr")]
  /\ ListUnchanged /\ SettingsUnchanged /\ StoreUnchanged /\ ProjUnchanged

\* await response.json() rejects (malformed body): the catch block
JsonReject(i) ==
  /\ cycles[i].pc = "json"
  /\ cycles' = [cycles EXCEPT ![i] = catchError(cycles[i], "parseerr")]
  /\ ListUnchanged /\ SettingsUnchanged /\ StoreUnchanged /\ ProjUnchanged

\* await response.json() resolves with data: lines 176-184
JsonResolve(i, data) ==
  /\ cycles[i].pc = "json"
  /\ IF ~data.isNull /\ Len(data.items) > 0
     THEN LET lat   == parseFloat(data.items[1].lat)
              lon   == parseFloat(data.items[1].lon)
              added == addMarker(markers, globeChildren, lat, lon,
                                 markerColor, markerSize, i, cycles[i].cityId)
          IN /\ markers' = added.markers
             /\ globeChildren' = added.children
             /\ cycles' = [cycles EXCEPT ![i] =
                             [Logged(cycles[i], "found", data.items[1].lat,
                                     data.items[1].lon) EXCEPT !.pc = "delay"]]
     ELSE /\ StoreUnchanged
          /\ cycles' = [cycles EXCEPT ![i] =
                          [Logged(cycles[i], "empty", <<>>, <<>>)
                             EXCEPT !.pc = "delay"]]
  /\ ListUnchanged /\ SettingsUnchanged /\ ProjUnchanged

\* the 1000 ms timer fires: the next iteration
DelayElapsed(i) ==
  /\ cycles[i].pc = "delay"
  /\ cycles' = [cycles EXCEPT ![i] =
                  NextIteration([cycles[i] EXCEPT !.waitedMs = @ + DelayMs], TRUE)]
  /\ ListUnchanged /\ SettingsUnchanged /\ StoreUnchanged /\ ProjUnchanged

-----------------------------------------------------------------------------
(* Sidebar handlers *)

\* addLocationBtn click handler (script.js:345-352), the user having typed v
AddLocationClick(v) ==
  /\ nextId <= Len(InitialLocations) + MaxAdds
  /\ LET location == trim(v)
     IN IF location # <<>>
        THEN /\ locations' = Append(locations, location)
             /\ locIds' = Append(locIds, nextId)
             /\ nextId' = nextId + 1
             /\ newLocationValue' = <<>>
             /\ locationList' = updateLocationList(locations')
             /\ cycles' = NoteEdit(cycles)
        ELSE /\ newLocationValue' = v
             /\ UNCHANGED <<locations, locIds, nextId, locationList, cycles>>
  /\ UNCHANGED removes
  /\ SettingsUnchanged /\ StoreUnchanged /\ ProjUnchanged

\* keypress handler of #newLocation (script.js:354-358): Enter clicks the
\* button, any other key is left to the browser
NewLocationKeypress(key, v) ==
  IF key = "Enter" THEN AddLocationClick(v) ELSE UNCHANGED vars

\* Remove button of the k-th rendered item (script.js:330-333)
DeleteClick(k) ==
  /\ removes < MaxRemoves
  /\ k \in DOMAIN locationList
  /\ LET r == deleteBtnClick(locations, locationList, k)
     IN /\ locations' = r.locations
        /\ locIds' = splice1(locIds, locationList[k].index)
        /\ locationList' = r.list
  /\ cycles' = NoteEdit(cycles)
  /\ removes' = removes + 1
  /\ UNCHANGED <<nextId, newLocationValue>>
  /\ SettingsUnchanged /\ StoreUnchanged /\ ProjUnchanged

\* a colour handler that also repaints the markers already placed
MarkerColorInputRepaint ==
  \E s \in ColorInputs :
    /\ markerColor' = parseInt(replaceHash(s))
    /\ markers' = [k \in DOMAIN markers |->
                     [markers[k] EXCEPT !.color = markerColor']]
    /\ globeChildren' = [k \in DOMAIN globeChildren |->
                           [globeChildren[k] EXCEPT !.color = markerColor']]
    /\ UNCHANGED <<markerSize, markerSizeValue, cycles>>
    /\ ListUnchanged /\ ProjUnchanged

\* markerColor input handler (script.js:249-252)
MarkerColorInput ==
  \E s \in ColorInputs :
    /\ markerColor' = parseInt(replaceHash(s))
    /\ UNCHANGED <<markerSize, markerSizeValue, cycles>>
    /\ ListUnchanged /\ StoreUnchanged /\ ProjUnchanged

\* markerSize input handler (script.js:258-261)
MarkerSizeInput ==
  \E s \in SizeInputs :
    /\ markerSize' = parseFloat(s)
    /\ markerSizeValue' = toFixed3(markerSize')
    /\ UNCHANGED <<markerColor, cycles>>
    /\ ListUnchanged /\ StoreUnchanged /\ ProjUnchanged

-----------------------------------------------------------------------------
(* The program: the state once the script has run (settings of lines 5-13, *)
(* the startup call of line 192 at its first await, the list rendered by   *)
(* line 367), then any handler or continuation.                            *)

ProgramInit(track) ==
  /\ tracking = track
  /\ locations = InitialLocations
  /\ locIds = [k \in 1..Len(InitialLocations) |-> k]
  /\ nextId = Len(InitialLocations) + 1
  /\ locationList = updateLocationList(locations)
  /\ newLocationValue = <<>>
  /\ removes = 0
  /\ markerColor = Num(16711680)
  /\ markerSize = Num(8)
  /\ markerSizeValue = <<"0", ".", "0", "0", "8">>
  /\ markers = clearMarkers(<<>>, <<>>).markers
  /\ globeChildren = clearMarkers(<<>>, <<>>).children
  /\ cycles = <<StartedCycle(TRUE, 0)>>

InitWith(track) ==
  /\ ProgramInit(track)
  /\ pLat = 0 /\ pLon = 0 /\ pRadius = 0 /\ pOut = <<>>

Init == InitWith(TRUE)

Next ==
  \/ RefreshClick
  \/ \E i \in DOMAIN cycles : FetchResolve(i)
  \/ \E i \in DOMAIN cycles : FetchReject(i)
  \/ \E i \in DOMAIN cycles : JsonReject(i)
  \/ \E i \in DOMAIN cycles : \E data \in Bodies(cycles[i].city) : JsonResolve(i, data)
  \/ \E i \in DOMAIN cycles : DelayElapsed(i)
  \/ \E v \in LocationInputs : AddLocationClick(v)
  \/ \E key \in Keys, v \in LocationInputs : NewLocationKeypress(key, v)
  \/ \E k \in DOMAIN locationList : DeleteClick(k)
  \/ MarkerColorInput
  \/ MarkerSizeInput

Spec == Init /\ [][Next]_vars

(* The claims are checked on parts of Next, each a user who uses some of   *)
(* the controls: the whole of Next with two overlapping cycles over three  *)
(* locations is beyond an exhaustive search.                               *)

\* refresh triggers and lookup completions alone
NextRefresh ==
  \/ RefreshClick
  \/ \E i \in DOMAIN cycles : FetchResolve(i)
  \/ \E i \in DOMAIN cycles : FetchReject(i)
  \/ \E i \in DOMAIN cycles : JsonReject(i)
  \/ \E i \in DOMAIN cycles : \E data \in Bodies(cycles[i].city) : JsonResolve(i, data)
  \/ \E i \in DOMAIN cycles : DelayElapsed(i)

SpecRefresh == Init /\ [][NextRefresh]_vars

\* the startup cycle and the location list handlers
NextList ==
  \/ \E i \in DOMAIN cycles : FetchResolve(i)
  \/ \E i \in DOMAIN cycles : FetchReject(i)
  \/ \E i \in DOMAIN cycles : JsonReject(i)
  \/ \E i \in DOMAIN cycles : \E data \in Bodies(cycles[i].city) : JsonResolve(i, data)
  \/ \E i \in DOMAIN cycles : DelayElapsed(i)
  \/ \E v \in LocationInputs : AddLocationClick(v)
  \/ \E key \in Keys, v \in LocationInputs : NewLocationKeypress(key, v)
  \/ \E k \in DOMAIN locationList : DeleteClick(k)

SpecList == Init /\ [][NextList]_vars

\* the startup cycle and every sidebar handler, without the history fields
NextSidebar ==
  \/ NextList
  \/ MarkerColorInput
  \/ MarkerSizeInput

SpecSidebar == InitWith(FALSE) /\ [][NextSidebar]_vars

\* refresh cycles one after the other (the Refresh button clicked only while
\* no cycle is in flight) and Remove clicks
RefreshClickIdle ==
  /\ \A i \in DOMAIN cycles : ~Running(cycles[i])
  /\ RefreshClick

NextSolo ==
  \/ RefreshClickIdle
  \/ \E i \in DOMAIN cycles : FetchResolve(i)
  \/ \E i \in DOMAIN cycles : FetchReject(i)
  \/ \E i \in DOMAIN cycles : JsonReject(i)
  \/ \E i \in DOMAIN cycles : \E data \in Bodies(cycles[i].city) : JsonResolve(i, data)
  \/ \E i \in DOMAIN cycles : DelayElapsed(i)
  \/ \E k \in DOMAIN locationList : DeleteClick(k)

SpecSolo == Init /\ [][NextSolo]_vars

-----------------------------------------------------------------------------
(* Direct calls of the projection: latLonToVector3(pLat, pLon, pRadius)    *)

Latitudes == { 30000 * k : k \in -3..3 }
Longitudes == { 30000 * k : k \in -6..6 }
Radii == { 1, 500, 1000, 1005, 2000 }

InitProj ==
  /\ ProgramInit(TRUE)
  /\ pLat \in Latitudes /\ pLon \in Longitudes /\ pRadius \in Radii
  /\ pOut = <<>>

Project ==
  /\ pOut = <<>>
  /\ pOut' = latLonToVector3(Num(pLat), Num(pLon), pRadius)
  /\ UNCHANGED <<locations, locIds, nextId, locationList, newLocationValue,
                 markerColor, markerSize, markerSizeValue, markers,
                 globeChildren, cycles, removes, tracking, pLat, pLon, pRadius>>

SpecProj == InitProj /\ [][Project]_vars

-----------------------------------------------------------------------------
(* Claims *)

Kinds(c) == [k \in DOMAIN c.log |-> c.log[k].kind]
Failed(e) == e.kind \in {"empty", "neterr", "parseerr"}
Count(x, s) == Cardinality({k \in DOMAIN s : s[k] = x})
IsPrefix(s, t) == Len(s) <= Len(t) /\ s = SubSeq(t, 1, Len(s))
TrackedCycles == {i \in DOMAIN cycles : cycles[i].tracked}

\* C1: a cycle waits the 1000 ms delay after every location, whatever the
\* outcome of its lookup, so a finished cycle that looked up N locations has
\* accumulated at least N x 1000 ms of delay.
C1_DelayAfterEveryLocation ==
  \A i \in TrackedCycles :
    cycles[i].pc = "done" =>
      cycles[i].waitedMs >= Len(cycles[i].looked) * DelayMs

\* C2: every marker in the store was added by the most recent refresh cycle,
\* for exactly one location of that cycle whose lookup returned a result; no
\* marker of an earlier cycle is present.
C2_MarkersOfLatestCycle ==
  \A k \in DOMAIN markers :
    /\ markers[k].cyc = Len(cycles)
    /\ \E j \in DOMAIN cycles[Len(cycles)].log :
         /\ cycles[Len(cycles)].log[j].id = markers[k].loc
         /\ cycles[Len(cycles)].log[j].kind = "found"
    /\ \A j \in DOMAIN markers : markers[j].loc = markers[k].loc => j = k

\* C3: at most one lookup request is outstanding at any moment, and no
\* request is issued without the delay having elapsed after the previous one.
C3_StrictlySequential ==
  /\ Cardinality({i \in DOMAIN cycles : cycles[i].pc = "fetch"}) <= 1
  /\ \A i \in TrackedCycles : ~cycles[i].noDelay

\* C4: a failed lookup (empty result, network error, malformed response) adds
\* no marker for its location and does not abort the cycle: while the list
\* is not edited, the cycle issues the lookups in list order and returns
\* only after a lookup for every location of the list.
C4_FailureNeverAborts ==
  \A i \in TrackedCycles :
    LET c == cycles[i]
    IN ~c.edited =>
         /\ IsPrefix(c.looked, c.startIds)
         /\ c.pc = "done" => c.looked = c.startIds
         /\ \A j \in DOMAIN c.log :
              /\ c.log[j].id = c.looked[j]
              /\ Failed(c.log[j]) =>
                   \A k \in DOMAIN markers :
                     ~(markers[k].cyc = i /\ markers[k].loc = c.log[j].id)

C4_Witness ==
  \E i \in TrackedCycles :
    /\ cycles[i].pc = "done" /\ ~cycles[i].edited
    /\ Kinds(cycles[i]) = <<"neterr", "parseerr", "found">>
    /\ Len(markers) = 1

\* C5: when a cycle has run to completion alone, with no edit of the list
\* meanwhile, the store holds exactly one marker per location whose lookup
\* returned a result, in list order, each at the position projected from the
\* returned latitude / longitude, and nothing else (empty for an empty list).
C5_SoloCycleResult ==
  LET n == Len(cycles)
      c == cycles[n]
      found == SelectSeq(c.log, LAMBDA e : e.kind = "found")
  IN (c.tracked /\ c.pc = "done" /\ c.alone /\ ~c.edited) =>
       /\ [j \in DOMAIN c.log |-> c.log[j].id] = c.startIds
       /\ Len(markers) = Len(found)
       /\ \A k \in DOMAIN markers :
            /\ markers[k].position =
                 latLonToVector3(parseFloat(found[k].lat),
                                 parseFloat(found[k].lon), MarkerRadius)
            /\ markers[k].cyc = n
            /\ markers[k].loc = found[k].id
       /\ globeChildren = markers
       /\ c.startIds = <<>> => markers = <<>>

C5_Witness ==
  LET c == cycles[Len(cycles)]
  IN /\ Len(cycles) = 2 /\ c.tracked /\ c.pc = "done" /\ c.alone
     /\ c.cleared = 2
     /\ Kinds(c) = <<"found", "empty", "found">>
     /\ Len(markers) = 2

\* C6: clearMarkers detaches every stored marker from the globe and leaves
\* the store empty, and a second call changes nothing.
C6_ClearMarkersIdempotent ==
  LET once  == clearMarkers(markers, globeChildren)
      twice == clearMarkers(once.markers, once.children)
  IN /\ once.markers = <<>>
     /\ \A k \in DOMAIN markers : ~InSeq(markers[k], once.children)
     /\ twice = once
     /\ \A i \in TrackedCycles :
          (cycles[i].pc = "fetch" /\ cycles[i].log = <<>> /\ i = Len(cycles)) =>
            markers = <<>> /\ globeChildren = <<>>

C6_Witness ==
  /\ Len(cycles) = 2
  /\ cycles[2].cleared = 3 /\ cycles[2].log = <<>>
  /\ markers = <<>> /\ globeChildren = <<>>

\* C7 as stated: latitude 0, longitude 0 gives (-radius, 0, 0) and
\* latitude 0, longitude 90 gives (0, 0, radius).
C7_QuadrantsAsStated ==
  pOut # <<>> /\ pLat = 0 =>
    /\ pLon = 0 => pOut = <<Num(-pRadius), Num(0), Num(0)>>
    /\ pLon = 90000 => pOut = <<Num(0), Num(0), Num(pRadius)>>

\* C7 amended: for any radius > 0, latitude 0 and longitude 0 give
\* (radius, 0, 0), and latitude 0 and longitude 90 give (0, 0, -radius).
C7_Quadrants ==
  pOut # <<>> /\ pLat = 0 =>
    /\ pLon = 0 => pOut = <<Num(pRadius), Num(0), Num(0)>>
    /\ pLon = 90000 => pOut = <<Num(0), Num(0), Num(-pRadius)>>

C7_Witness == pOut # <<>> /\ pLat = 0 /\ pLon = 90000 /\ pRadius = MarkerRadius

\* the rendered items are the list's elements, each with its current index
ListRendered ==
  /\ Len(locationList) = Len(locations)
  /\ \A k \in DOMAIN locationList :
       locationList[k].text = locations[k] /\ locationList[k].index = k - 1

\* C8: the rendered list always equals settings.locations, each Remove button
\* holding the current index of its item, and a click on the Remove button of
\* the item shown at index i removes exactly the location at index i: the
\* ones before keep their index, the ones after move down by one.
C8_RemoveAtIndex ==
  /\ []ListRendered
  /\ [][removes' # removes =>
          \A k \in DOMAIN locationList :
            DeleteClick(k) =>
              /\ Len(locations') = Len(locations) - 1
              /\ \A j \in 1..(k - 1) : locations'[j] = locations[j]
              /\ \A j \in k..Len(locations') : locations'[j] = locations[j + 1]]_vars

C8_Witness ==
  /\ locIds = <<1, 3, 4>>
  /\ Len(locationList) = 3
  /\ locationList[2].text = <<"C", "a">> /\ locationList[2].index = 1

\* C9: adding or removing a location and changing the marker colour or size
\* leave the marker store and the globe's markers unchanged; they change
\* only in a step of a refresh cycle.
C9_EditsLeaveMarkers ==
  [][/\ (locations' # locations \/ locationList' # locationList
           \/ markerColor' # markerColor \/ markerSize' # markerSize
           \/ markerSizeValue' # markerSizeValue)
          => UNCHANGED <<markers, globeChildren>>
     /\ (markers' # markers \/ globeChildren' # globeChildren)
          => cycles' # cycles]_vars

C9_Witness ==
  /\ Len(markers) = 2
  /\ markers[1].loc = 1 /\ ~InSeq(1, locIds) /\ InSeq(4, locIds)
  /\ markers[1].color # markerColor /\ markers[1].size # markerSize
  /\ markers[2].color = markerColor /\ markers[2].size = markerSize
  /\ globeChildren = markers

\* C10: a cycle issues exactly one lookup for every location that is in the
\* list when it starts and still there when it ends, in list order, also
\* when other locations are added or removed meanwhile.
C10_EveryRemainingLocationLookedUp ==
  \A i \in TrackedCycles :
    LET c == cycles[i]
        kept == SelectSeq(c.startIds, LAMBDA id : InSeq(id, c.endIds))
    IN c.pc = "done" =>
         /\ \A k \in DOMAIN kept : Count(kept[k], c.looked) = 1
         /\ SelectSeq(c.looked, LAMBDA id : InSeq(id, kept)) = kept

====
